---- MODULE Spec2Model ----
(***************************************************************************)
(* Model of the wasm entry point transformSync of swc/src/lib.rs: the      *)
(* option schema (Options, SWCOptions) with its serde defaults, and the    *)
(* steps of transform_sync in the order the function performs them.        *)
(* Rust Option<T> values are sets with at most one element.                *)
(***************************************************************************)
EXTENDS Integers, Sequences, FiniteSets, TLC

VARIABLES pc, hook_set, src, req, opts, module, resolver, emit, transpiled,
          result, log, engine_map, probe, memo, others

vars == <<pc, hook_set, src, req, opts, module, resolver, emit, transpiled,
          result, log, engine_map, probe, memo, others>>

Some(x) == {x}

None == {}

Unwrap(o) == CHOOSE x \in o : TRUE

(***************************************************************************)
(* Source texts handed to transformSync as its first argument.             *)
(***************************************************************************)
SrcComponent == "import { x } from 'foo'; export const A = () => <div/>;"

SrcPlain == "import y from 'bar'; y();"

SrcInvalid == "const = ;"

\* A text that parses and on which transpile returns an error.
SrcUnemittable == "export default function () { return <a:b.c/>; }"

Sources == {SrcComponent, SrcPlain, SrcInvalid, SrcUnemittable}

(***************************************************************************)
(* The option schema.                                                      *)
(***************************************************************************)
OptionsFields == {"filename", "importMap", "swcOptions"}

SWCOptionsFields == {"target", "jsxFactory", "jsxFragmentFactory", "isDev"}

default_target == "es2020"

default_pragma == "React.createElement"

\* Variant: the fragment default copied from the element factory default.
default_pragma_frag_copied == "React.createElement"

default_pragma_frag == "React.Fragment"

SWCOptionsDefault ==
    [target |-> default_target,
     jsx_factory |-> default_pragma,
     jsx_fragment_factory |-> default_pragma_frag,
     is_dev |-> TRUE]

ImportHashMapDefault == [imports |-> {}, scopes |-> {}]

(***************************************************************************)
(* Requests: JSON objects, functions from the keys present to values.      *)
(***************************************************************************)
ImportsValid == {<<"foo", "/deps/foo.js">>}

ImportsMalformed == {<<"", "/deps/x.js">>}

ImportMapValues ==
    {[imports |-> i, scopes |-> {}] : i \in {{}, ImportsValid, ImportsMalformed}}

MkSwc(t, jf, jff, d, extra) ==
    [k \in {kk \in SWCOptionsFields \cup {"sourceMap"} :
               \/ kk = "target" /\ t # None
               \/ kk = "jsxFactory" /\ jf # None
               \/ kk = "jsxFragmentFactory" /\ jff # None
               \/ kk = "isDev" /\ d # None
               \/ kk = "sourceMap" /\ extra} |->
        CASE k = "target" -> Unwrap(t)
          [] k = "jsxFactory" -> Unwrap(jf)
          [] k = "jsxFragmentFactory" -> Unwrap(jff)
          [] k = "isDev" -> Unwrap(d)
          [] OTHER -> TRUE]

SwcValues ==
    {MkSwc(t, jf, jff, d, extra) :
        t \in {None, Some("es5")},
        jf \in {None, Some("h")},
        jff \in {None, Some("Fragment")},
        d \in {None, Some(TRUE), Some(FALSE)},
        extra \in BOOLEAN}

MkReq(fn, im, so, extra) ==
    [k \in {kk \in OptionsFields \cup {"sourceText"} :
               \/ kk = "filename" /\ fn # None
               \/ kk = "importMap" /\ im # None
               \/ kk = "swcOptions" /\ so # None
               \/ kk = "sourceText" /\ extra} |->
        CASE k = "filename" -> Unwrap(fn)
          [] k = "importMap" -> Unwrap(im)
          [] k = "swcOptions" -> Unwrap(so)
          [] OTHER -> SrcPlain]

Requests ==
    {MkReq(fn, im, so, extra) :
        fn \in {None, Some("/pages/index.tsx")},
        im \in {None} \cup {Some(v) : v \in ImportMapValues},
        so \in {None} \cup {Some(v) : v \in SwcValues},
        extra \in BOOLEAN}

(***************************************************************************)
(* serde decoding of the options (deny_unknown_fields, field defaults).    *)
(* A decoding result is [ok, val]: val is the decoded struct when ok.      *)
(***************************************************************************)
DecodeErr == [ok |-> FALSE, val |-> None]

DecodeOk(v) == [ok |-> TRUE, val |-> Some(v)]

\* Variant: SWCOptions decoded without deny_unknown_fields.
DecodeSWCOptions_lenient(o) ==
    DecodeOk(
      [target |-> IF "target" \in DOMAIN o THEN o["target"] ELSE default_target,
       jsx_factory |-> IF "jsxFactory" \in DOMAIN o
                       THEN o["jsxFactory"] ELSE default_pragma,
       jsx_fragment_factory |-> IF "jsxFragmentFactory" \in DOMAIN o
                                THEN o["jsxFragmentFactory"]
                                ELSE default_pragma_frag,
       is_dev |-> IF "isDev" \in DOMAIN o THEN o["isDev"] ELSE FALSE])

DecodeSWCOptions(o) ==
    IF DOMAIN o \subseteq SWCOptionsFields
    THEN DecodeOk(
           [target |-> IF "target" \in DOMAIN o THEN o["target"] ELSE default_target,
            jsx_factory |-> IF "jsxFactory" \in DOMAIN o
                            THEN o["jsxFactory"] ELSE default_pragma,
            jsx_fragment_factory |-> IF "jsxFragmentFactory" \in DOMAIN o
                                     THEN o["jsxFragmentFactory"]
                                     ELSE default_pragma_frag,
            is_dev |-> IF "isDev" \in DOMAIN o THEN o["isDev"] ELSE FALSE])
    ELSE DecodeErr

\* Variant: filename carrying #[serde(default)], an absent one decoded as "".
DecodeOptions_filename_default(r) ==
    IF ~(DOMAIN r \subseteq OptionsFields) THEN DecodeErr
    ELSE LET swc == IF "swcOptions" \in DOMAIN r
                    THEN DecodeSWCOptions(r["swcOptions"])
                    ELSE DecodeOk(SWCOptionsDefault)
         IN IF ~swc.ok THEN DecodeErr
            ELSE DecodeOk(
                   [filename |-> IF "filename" \in DOMAIN r THEN r["filename"] ELSE "",
                    import_map |-> IF "importMap" \in DOMAIN r
                                   THEN r["importMap"] ELSE ImportHashMapDefault,
                    swc_options |-> Unwrap(swc.val)])

DecodeOptions(r) ==
    IF ~(DOMAIN r \subseteq OptionsFields) THEN DecodeErr
    ELSE IF "filename" \notin DOMAIN r THEN DecodeErr
    ELSE LET swc == IF "swcOptions" \in DOMAIN r
                    THEN DecodeSWCOptions(r["swcOptions"])
                    ELSE DecodeOk(SWCOptionsDefault)
         IN IF ~swc.ok THEN DecodeErr
            ELSE DecodeOk(
                   [filename |-> r["filename"],
                    import_map |-> IF "importMap" \in DOMAIN r
                                   THEN r["importMap"] ELSE ImportHashMapDefault,
                    swc_options |-> Unwrap(swc.val)])

(***************************************************************************)
(* The parser of the swc module: a source text either parses into a module *)
(* that remembers its file name, text and target level, or fails.          *)
(***************************************************************************)
Parseable(s) == s # SrcInvalid

ParsedModule_parse(filename, s, target) ==
    IF Parseable(s)
    THEN Some([filename |-> filename, source |-> s, target |-> target])
    ELSE None

(***************************************************************************)
(* Import map: from_hashmap hands back the map of the decoded payload (its *)
(* value goes to Resolver::new as it is); resolution is an exact-key       *)
(* lookup in the top-level entries.                                        *)
(***************************************************************************)
ImportMap_from_hashmap(m) == [imports |-> m.imports, scopes |-> m.scopes]

ImportMap_resolve(im, specifier) ==
    IF \E e \in im.imports : e[1] = specifier
    THEN Some((CHOOSE e \in im.imports : e[1] = specifier)[2])
    ELSE None

(***************************************************************************)
(* The Resolver and the emit options as transform_sync constructs them.    *)
(***************************************************************************)
\* Variant: the import map handed to the Resolver only in dev mode.
Resolver_new_dev_map(o, im) ==
    [specifier |-> o.filename,
     import_map |-> IF o.swc_options.is_dev THEN im ELSE ImportHashMapDefault,
     production |-> ~o.swc_options.is_dev,
     has_plugin_resolves |-> FALSE,
     deps |-> <<>>]

\* Variant: the production flag passed without the negation.
Resolver_new_unnegated(o, im) ==
    [specifier |-> o.filename,
     import_map |-> im,
     production |-> o.swc_options.is_dev,
     has_plugin_resolves |-> FALSE,
     deps |-> <<>>]

Resolver_new(o, im) ==
    [specifier |-> o.filename,
     import_map |-> im,
     production |-> ~o.swc_options.is_dev,
     has_plugin_resolves |-> FALSE,
     deps |-> <<>>]

NewEmitOptions(o) ==
    [jsx_factory |-> o.swc_options.jsx_factory,
     jsx_fragment_factory |-> o.swc_options.jsx_fragment_factory,
     is_dev |-> o.swc_options.is_dev]

(***************************************************************************)
(* Resolver.resolve on a bare specifier: the import map is asked first; an *)
(* unmatched specifier is deferred when plugin resolution is available and *)
(* passed through unchanged otherwise.                                     *)
(***************************************************************************)
Resolver_resolve(r, specifier) ==
    LET hit == ImportMap_resolve(r.import_map, specifier)
    IN IF hit # None
       THEN [specifier |-> specifier, resolved |-> Unwrap(hit), pending |-> FALSE]
       ELSE [specifier |-> specifier, resolved |-> specifier,
             pending |-> r.has_plugin_resolves]

ImportsOf(s) ==
    IF s = SrcComponent THEN <<"foo">>
    ELSE IF s = SrcPlain THEN <<"bar">>
    ELSE <<>>

HasComponent(s) == s = SrcComponent

(***************************************************************************)
(* ParsedModule.transpile: rewrites the specifiers through the resolver,   *)
(* lowers JSX to the configured factories, wraps components with refresh   *)
(* registration in dev mode, and emits the code and an optional map.       *)
(***************************************************************************)
TranspileDeps(m, r) ==
    [i \in 1..Len(ImportsOf(m.source)) |-> Resolver_resolve(r, ImportsOf(m.source)[i])]

TranspileCode(m, r, e) ==
    [source |-> m.source,
     target |-> m.target,
     specifiers |-> [i \in 1..Len(ImportsOf(m.source)) |->
                        TranspileDeps(m, r)[i].resolved],
     jsx |-> IF HasComponent(m.source)
             THEN Some(<<e.jsx_factory, e.jsx_fragment_factory>>)
             ELSE None,
     refresh |-> e.is_dev /\ HasComponent(m.source)]

\* transpile returns Err on a module it cannot emit.
TranspileFails(m) == m.source = SrcUnemittable

TranspileMap(m, with_map) == IF with_map THEN Some("map") ELSE None

(***************************************************************************)
(* TransformOutput and its serialization: map is skipped when it is None.  *)
(* A JSON value is Some(v), JSON null is None.                             *)
(***************************************************************************)
TransformOutput(code, map) == [code |-> code, map |-> map]

\* Variant: map serialized without skip_serializing_if, None written as null.
Serialize_null_map(out) ==
    [k \in {"code", "map"} |-> IF k = "code" THEN Some(out.code) ELSE out.map]

Serialize(out) ==
    [k \in {"code"} \cup (IF out.map = None THEN {} ELSE {"map"}) |->
        IF k = "code" THEN Some(out.code) ELSE out.map]

(***************************************************************************)
(* Results of a call: the Ok arm, the Err arm, or a panic.                 *)
(***************************************************************************)
ResOk(v) == [kind |-> "Ok", msg |-> "", response |-> Some(v)]

ResErr(m) == [kind |-> "Err", msg |-> m, response |-> None]

ResPanic(m) == [kind |-> "Panic", msg |-> m, response |-> None]

(***************************************************************************)
(* Inputs whose outcome is remembered to compare later calls against: memo *)
(* keeps the first outcome of the probe input, others the kinds of outcome *)
(* of the calls with another input that finished since.                    *)
(***************************************************************************)
ProbeFile == Some("/pages/index.tsx")

ProbeMap == Some([imports |-> ImportsValid, scopes |-> {}])

Probes ==
    {<<SrcComponent, MkReq(ProbeFile, ProbeMap, None, FALSE)>>,
     <<SrcComponent, MkReq(ProbeFile, ProbeMap,
                           Some(MkSwc(None, None, None, Some(FALSE), FALSE)), FALSE)>>,
     <<SrcPlain, MkReq(ProbeFile, None, Some(MkSwc(None, None, None, None, FALSE)), FALSE)>>,
     <<SrcInvalid, MkReq(ProbeFile, ProbeMap, None, FALSE)>>,
     <<SrcUnemittable, MkReq(ProbeFile, None, None, FALSE)>>,
     <<SrcPlain, MkReq(None, ProbeMap, None, FALSE)>>}

(***************************************************************************)
(* State machine.                                                          *)
(***************************************************************************)
Init ==
    /\ pc = "idle"
    /\ hook_set = FALSE
    /\ src = None
    /\ req = None
    /\ opts = None
    /\ module = None
    /\ resolver = None
    /\ emit = None
    /\ transpiled = None
    /\ result = None
    /\ log = <<>>
    /\ engine_map \in BOOLEAN
    /\ probe \in Probes
    /\ memo = None
    /\ others = {}

\* transform_sync is entered: the panic hook is installed once and the
\* options are decoded; a decoding error is returned through the Err arm.
Call(s, r) ==
    /\ pc = "idle"
    /\ hook_set' = TRUE
    /\ src' = Some(s)
    /\ req' = Some(r)
    /\ log' = <<"decode">>
    /\ LET d == DecodeOptions(r)
       IN IF d.ok
          THEN /\ opts' = d.val
               /\ result' = None
               /\ pc' = "parse"
          ELSE /\ opts' = None
               /\ result' = Some(ResErr("failed to parse options"))
               /\ pc' = "returned"
    /\ UNCHANGED <<module, resolver, emit, transpiled, engine_map, probe, memo, others>>

\* ParsedModule::parse(...).expect("could not parse module")
Parse ==
    /\ pc = "parse"
    /\ log' = Append(log, "parse")
    /\ LET o == Unwrap(opts)
           m == ParsedModule_parse(o.filename, Unwrap(src), o.swc_options.target)
       IN IF m # None
          THEN /\ module' = m
               /\ result' = result
               /\ pc' = "resolver"
          ELSE /\ module' = None
               /\ result' = Some(ResPanic("could not parse module"))
               /\ pc' = "returned"
    /\ UNCHANGED <<hook_set, src, req, opts, resolver, emit, transpiled,
                   engine_map, probe, memo, others>>

\* Rc::new(RefCell::new(Resolver::new(filename, ImportMap::from_hashmap(..), ..)))
NewResolver ==
    /\ pc = "resolver"
    /\ log' = Append(log, "resolver")
    /\ LET o == Unwrap(opts)
       IN resolver' = Some(Resolver_new(o, ImportMap_from_hashmap(o.import_map)))
    /\ pc' = "transpile"
    /\ UNCHANGED <<hook_set, src, req, opts, module, emit, transpiled, result,
                   engine_map, probe, memo, others>>

\* module.transpile(resolver, &EmitOptions { .. }).expect("could not transpile module")
Transpile ==
    /\ pc = "transpile"
    /\ log' = Append(log, "transpile")
    /\ LET o == Unwrap(opts)
           m == Unwrap(module)
           r == Unwrap(resolver)
           e == NewEmitOptions(o)
       IN /\ emit' = Some(e)
          /\ IF TranspileFails(m)
             THEN /\ resolver' = resolver
                  /\ transpiled' = None
                  /\ result' = Some(ResPanic("could not transpile module"))
                  /\ pc' = "returned"
             ELSE /\ resolver' = Some([r EXCEPT !.deps = TranspileDeps(m, r)])
                  /\ transpiled' =
                        Some(<<TranspileCode(m, r, e), TranspileMap(m, engine_map)>>)
                  /\ result' = result
                  /\ pc' = "serialize"
    /\ module' = None
    /\ UNCHANGED <<hook_set, src, req, opts, engine_map, probe, memo, others>>

\* Ok(JsValue::from_serde(&TransformOutput { code, map }).unwrap())
Respond ==
    /\ pc = "serialize"
    /\ log' = Append(log, "serialize")
    /\ LET t == Unwrap(transpiled)
       IN result' = Some(ResOk(Serialize(TransformOutput(t[1], t[2]))))
    /\ pc' = "returned"
    /\ UNCHANGED <<hook_set, src, req, opts, module, resolver, emit, transpiled,
                   engine_map, probe, memo, others>>

\* Variant: the Resolver kept alive past the end of the call.
Finish_keep_resolver ==
    /\ pc = "returned"
    /\ pc' = "idle"
    /\ src' = None
    /\ req' = None
    /\ opts' = None
    /\ module' = None
    /\ resolver' = resolver
    /\ emit' = None
    /\ transpiled' = None
    /\ result' = None
    /\ log' = <<>>
    /\ memo' = IF memo = None /\ <<Unwrap(src), Unwrap(req)>> = probe
               THEN result ELSE memo
    /\ others' = IF memo # None /\ <<Unwrap(src), Unwrap(req)>> # probe
                 THEN others \cup {Unwrap(result).kind} ELSE others
    /\ UNCHANGED <<hook_set, engine_map, probe>>

\* The call is over: the result goes to the caller and the locals are dropped.
Finish ==
    /\ pc = "returned"
    /\ pc' = "idle"
    /\ src' = None
    /\ req' = None
    /\ opts' = None
    /\ module' = None
    /\ resolver' = None
    /\ emit' = None
    /\ transpiled' = None
    /\ result' = None
    /\ log' = <<>>
    /\ memo' = IF memo = None /\ <<Unwrap(src), Unwrap(req)>> = probe
               THEN result ELSE memo
    /\ others' = IF memo # None /\ <<Unwrap(src), Unwrap(req)>> # probe
                 THEN others \cup {Unwrap(result).kind} ELSE others
    /\ UNCHANGED <<hook_set, engine_map, probe>>

Next ==
    \/ \E s \in Sources, r \in Requests : Call(s, r)
    \/ Parse
    \/ NewResolver
    \/ Transpile
    \/ Respond
    \/ Finish

Spec == Init /\ [][Next]_vars

TypeOK ==
    /\ pc \in {"idle", "parse", "resolver", "transpile", "serialize", "returned"}
    /\ hook_set \in BOOLEAN
    /\ engine_map \in BOOLEAN
    /\ Cardinality(result) <= 1
    /\ Cardinality(resolver) <= 1

(***************************************************************************)
(* Properties.                                                             *)
(***************************************************************************)
InCall == req # None

R == Unwrap(req)

Returned == pc = "returned"

Swc(r) == r["swcOptions"]

HasSwcKey(r, k) == "swcOptions" \in DOMAIN r /\ k \in DOMAIN Swc(r)

HasUnknownKey(r) ==
    \/ DOMAIN r \ {"filename", "importMap", "swcOptions"} # {}
    \/ /\ "swcOptions" \in DOMAIN r
       /\ DOMAIN Swc(r) \ {"target", "jsxFactory", "jsxFragmentFactory", "isDev"} # {}

WellFormedRequest(r) == "filename" \in DOMAIN r /\ ~HasUnknownKey(r)

MalformedImportMap(r) ==
    "importMap" \in DOMAIN r /\ \E e \in r["importMap"].imports : e[1] = ""

Attempted(step) == \E i \in 1..Len(log) : log[i] = step

\* What the import map of the request makes of a specifier.
Mapped(r, specifier) ==
    IF "importMap" \in DOMAIN r /\ \E e \in r["importMap"].imports : e[1] = specifier
    THEN (CHOOSE e \in r["importMap"].imports : e[1] = specifier)[2]
    ELSE specifier

\* C1: when isDev is absent from the request (swcOptions absent, or present
\* without an isDev key) the dev flag transformSync works with is true.
C1_DevFlagDefaultsTrue ==
    (InCall /\ opts # None /\ ~HasSwcKey(R, "isDev")) =>
        /\ Unwrap(opts).swc_options.is_dev = TRUE
        /\ emit # None => Unwrap(emit).is_dev = TRUE

\* C2: a call with a malformed import map ends with an error of the Err arm
\* and never attempts to parse the source, whatever the source is.
C2_ConfigErrorBeforeParse ==
    (InCall /\ MalformedImportMap(R)) =>
        /\ ~Attempted("parse")
        /\ Returned => Unwrap(result).kind = "Err"

\* C3: when the source does not parse, the call ends with an error returned
\* through the Err arm, with no response, no Resolver and no transpile.
C3_ParseErrorReturned ==
    (InCall /\ Returned /\ opts # None /\ ~Parseable(Unwrap(src))) =>
        /\ Unwrap(result).kind = "Err"
        /\ Unwrap(result).response = None
        /\ ~Attempted("resolver")
        /\ ~Attempted("transpile")

\* C4: a request with a key outside the schema, at the top level or inside
\* swcOptions, is answered with an error before any parse attempt and
\* without any code.
C4_UnknownKeyRejected ==
    (InCall /\ HasUnknownKey(R)) =>
        /\ Returned
        /\ log = <<"decode">>
        /\ Unwrap(result).kind = "Err"
        /\ Unwrap(result).response = None
        /\ module = None /\ transpiled = None

C4_Witness ==
    /\ InCall /\ Returned
    /\ "filename" \in DOMAIN R
    /\ DOMAIN R \subseteq {"filename", "importMap", "swcOptions"}
    /\ HasSwcKey(R, "sourceMap")
    /\ Unwrap(result).kind = "Err"

\* C5: with isDev = false the emit options carry a false dev flag and the
\* code has no refresh registration, while the Resolver still holds the
\* import map of the request and every specifier is rewritten through it.
C5_DevGatesInstrumentationOnly ==
    (InCall /\ transpiled # None /\ HasSwcKey(R, "isDev") /\ Swc(R)["isDev"] = FALSE) =>
        LET code == Unwrap(transpiled)[1]
            imports == ImportsOf(Unwrap(src))
        IN /\ Unwrap(emit).is_dev = FALSE
           /\ code.refresh = FALSE
           /\ Unwrap(resolver).import_map.imports =
                 (IF "importMap" \in DOMAIN R THEN R["importMap"].imports ELSE {})
           /\ Len(code.specifiers) = Len(imports)
           /\ \A i \in 1..Len(imports) : code.specifiers[i] = Mapped(R, imports[i])

C5_Witness ==
    /\ InCall /\ transpiled # None
    /\ HasSwcKey(R, "isDev") /\ Swc(R)["isDev"] = FALSE
    /\ Unwrap(src) = SrcComponent
    /\ Unwrap(transpiled)[1].specifiers = <<"/deps/foo.js">>
    /\ Unwrap(transpiled)[1].refresh = FALSE

\* C6: an absent target, jsxFactory or jsxFragmentFactory takes the value
\* es2020, React.createElement, React.Fragment, with or without a swcOptions
\* object; a supplied value reaches the parse step (target) and the emit
\* options (factory names) unchanged.
C6_DefaultsAndPassThrough ==
    (InCall /\ opts # None) =>
        LET target == IF HasSwcKey(R, "target") THEN Swc(R)["target"] ELSE "es2020"
            factory == IF HasSwcKey(R, "jsxFactory")
                       THEN Swc(R)["jsxFactory"] ELSE "React.createElement"
            fragment == IF HasSwcKey(R, "jsxFragmentFactory")
                        THEN Swc(R)["jsxFragmentFactory"] ELSE "React.Fragment"
        IN /\ Unwrap(opts).swc_options.target = target
           /\ Unwrap(opts).swc_options.jsx_factory = factory
           /\ Unwrap(opts).swc_options.jsx_fragment_factory = fragment
           /\ module # None => Unwrap(module).target = target
           /\ emit # None =>
                 /\ Unwrap(emit).jsx_factory = factory
                 /\ Unwrap(emit).jsx_fragment_factory = fragment

C6_Witness ==
    /\ InCall /\ emit # None
    /\ "swcOptions" \in DOMAIN R
    /\ DOMAIN Swc(R) = {"jsxFactory"}
    /\ Unwrap(emit).jsx_factory = "h"
    /\ Unwrap(emit).jsx_fragment_factory = "React.Fragment"
    /\ Unwrap(opts).swc_options.target = "es2020"

\* C7: a successful call returns a response that has a code and whose map
\* is a string or is left out (never null); the response is the serialized
\* transpile result and does not change once built.
C7_ResponseShape ==
    (result # None /\ Unwrap(result).kind = "Ok") =>
        LET resp == Unwrap(Unwrap(result).response)
            t == Unwrap(transpiled)
        IN /\ {"code"} \subseteq DOMAIN resp
           /\ DOMAIN resp \subseteq {"code", "map"}
           /\ resp["code"] = Some(t[1])
           /\ "map" \in DOMAIN resp => (resp["map"] # None /\ resp["map"] = t[2])
           /\ "map" \in DOMAIN resp <=> t[2] # None

C7_ResponseStable == (result # None /\ result' # None) => result' = result

C7_SuccessResponse == []C7_ResponseShape /\ [][C7_ResponseStable]_vars

C7_Witness ==
    /\ result # None /\ Unwrap(result).kind = "Ok"
    /\ DOMAIN Unwrap(Unwrap(result).response) = {"code"}
    /\ transpiled # None /\ Unwrap(transpiled)[2] = None

\* C8: a request without filename is rejected with an options error before
\* parsing; a request without importMap is not rejected for that, and its
\* Resolver is built over an empty import map (no imports, no scopes).
C8_FilenameRequiredImportMapOptional ==
    InCall =>
        /\ "filename" \notin DOMAIN R =>
              /\ Returned /\ log = <<"decode">>
              /\ Unwrap(result) = ResErr("failed to parse options")
        /\ ("importMap" \notin DOMAIN R /\ WellFormedRequest(R)) =>
              /\ opts # None
              /\ Returned => Unwrap(result).kind # "Err"
              /\ Attempted("resolver") =>
                    /\ resolver # None
                    /\ Unwrap(resolver).import_map = [imports |-> {}, scopes |-> {}]

C8_Witness ==
    /\ InCall /\ "importMap" \notin DOMAIN R /\ WellFormedRequest(R)
    /\ resolver # None
    /\ Unwrap(resolver).import_map = [imports |-> {}, scopes |-> {}]
    /\ Returned /\ Unwrap(result).kind = "Ok"

\* C9: a call with the same source and options as an earlier call has the
\* same outcome, whatever calls ran in between, and between calls nothing
\* of a call (its Resolver included) is left.
C9_Stateless ==
    /\ (InCall /\ Returned /\ memo # None /\ <<Unwrap(src), R>> = probe) => result = memo
    /\ pc = "idle" =>
          /\ resolver = None /\ opts = None /\ module = None
          /\ emit = None /\ transpiled = None

C9_Witness ==
    /\ InCall /\ Returned /\ memo # None /\ <<Unwrap(src), R>> = probe
    /\ others = {"Ok", "Err", "Panic"}
    /\ Unwrap(memo).kind = "Ok"
    /\ Attempted("resolver")

\* C10: once transpile has run, the Resolver's production flag is the
\* negation of the emit options' dev flag, its plugin-resolution flag is
\* false, no dependency is pending, and a specifier the import map does not
\* match is passed through unchanged.
C10_ResolverFlags ==
    (InCall /\ Attempted("transpile")) =>
        LET r == Unwrap(resolver)
            imports == ImportsOf(Unwrap(src))
        IN /\ r.production = ~Unwrap(emit).is_dev
           /\ r.production = ~Unwrap(opts).swc_options.is_dev
           /\ r.has_plugin_resolves = FALSE
           /\ \A i \in 1..Len(r.deps) : r.deps[i].pending = FALSE
           /\ transpiled # None =>
                 /\ Len(r.deps) = Len(imports)
                 /\ \A i \in 1..Len(imports) :
                       Mapped(R, imports[i]) = imports[i] =>
                          /\ r.deps[i].resolved = imports[i]
                          /\ Unwrap(transpiled)[1].specifiers[i] = imports[i]

C10_Witness ==
    /\ InCall /\ Attempted("transpile")
    /\ Unwrap(src) = SrcPlain
    /\ Unwrap(resolver).production = TRUE
    /\ Unwrap(emit).is_dev = FALSE
    /\ transpiled # None
    /\ Unwrap(resolver).deps[1].resolved = "bar"
====
